---------------------------- MODULE Spec2Model ----------------------------
(***************************************************************************)
(* Streaming anomaly-detection session of the WellPro backend.             *)
(*                                                                         *)
(*   backend/analysis_utils.py  AnalysisState, handle_websocket_message,   *)
(*                              apply_analysis_method                      *)
(*   backend/app/main.py        websocket_endpoint (the stream loop)       *)
(*   backend/app/methods.py     z_score, lof, fft, AMMADDetector, ammad    *)
(*                                                                         *)
(* Encodings.  Channel names are transliterated to ASCII.  A score         *)
(* threshold is an integer number of tenths (5 is 0.5).  A JSON value of a *)
(* control frame is a record [t, v] with t in "absent" (key not in the     *)
(* frame), "null", "num" (the number v) and "str" (a non-numeric string).  *)
(* A deque is a record [items, maxlen].                                    *)
(***************************************************************************)
EXTENDS Integers, Sequences, FiniteSets, TLC

VARIABLES
    pc,               \* position of websocket_endpoint: "poll", "record", "closed"
    analysis_state,   \* the session's AnalysisState object
    ammad_detectors,  \* methods._ammad_detectors: channel -> len(history), 0 = no entry
    ammad_at_accept,  \* the table as it was when this session was accepted
    parsed_data,      \* app.state.default_data
    record_index,     \* cursor of the stream loop
    frames_polled,    \* number of control frames received by this session
    last_msg,         \* control frame handled in the current iteration, or NoMsg
    last_ret,         \* what handle_websocket_message returned for last_msg
    last_reported,    \* TRUE iff handling last_msg called the on_error callback
    last_pre,         \* analysis_state just before last_msg was handled
    chain,            \* frames handled back to back with no buffer touched between
    since_change,     \* channel -> samples appended since the last method change
    changed,          \* TRUE once a control frame of this session changed the method
    last_sent,        \* "data" payload of the last emitted frame: channel -> decision
    just_sent,        \* TRUE iff the last step of the session emitted last_sent
    batch,            \* the /analyze/file request in progress, or IdleBatch
    responses,        \* what the /analyze/file requests so far returned, in order
    emitted,          \* frames this session emitted, counted modulo len(parsed_data)
    gap,              \* loop iterations and control frames since the last emitted frame
    probe             \* a detector driven on its own: its inputs, state and outputs

vars == << pc, analysis_state, ammad_detectors, ammad_at_accept, parsed_data,
           record_index, frames_polled, last_msg, last_ret, last_reported,
           last_pre, chain, since_change, changed, last_sent, just_sent,
           batch, responses, emitted, gap, probe >>

session_vars == << pc, analysis_state, parsed_data, record_index, frames_polled,
                   last_msg, last_ret, last_reported, last_pre, chain,
                   since_change, changed, last_sent, just_sent, emitted, gap >>

batch_vars == << batch, responses >>

---------------------------------------------------------------------------
(* Bounds of the model *)

\* default_window_size handed to AnalysisState(...) by the session
DefaultWindow == 3
\* largest window_size a control frame carries
MaxWindow == 1
\* control frames one session receives
MaxFrames == 2
\* keys one control frame carries
MaxKeys == 2
\* AMMAD calls one session makes per channel
MaxAmmadCalls == 3

(* Program constants *)
AMMAD_MIN_HISTORY == 20
HISTORY_MAXLEN == 300
Z_SCORE_WINDOW_SIZE == 30
DEFAULT_SCORE_THRESHOLD == 5

Min(a, b) == IF a < b THEN a ELSE b
Max(a, b) == IF a > b THEN a ELSE b

RECURSIVE SumSeq(_)
SumSeq(s) == IF s = << >> THEN 0 ELSE Head(s) + SumSeq(Tail(s))

\* the last n items of s (all of s when it is shorter)
LastN(s, n) == IF Len(s) <= n THEN s ELSE SubSeq(s, Len(s) - n + 1, Len(s))

---------------------------------------------------------------------------
(* Channels, samples and the prepared record sequence *)

Pressure == "davlenie_na_vhode"
Depth == "glubina"
Channels == {Pressure, Depth}

\* a channel a record has no value for (NaN dropped by filter_required_parameters)
Missing == -1000

SAFETY_LIMITS ==
    [c \in Channels |->
        IF c = Pressure THEN [min |-> 0, max |-> 400]
                        ELSE [min |-> 0, max |-> 10000]]

FullRecord(p, d) == [c \in Channels |-> IF c = Pressure THEN p ELSE d]

DefaultData ==
    << FullRecord(100, 100), FullRecord(500, 101), FullRecord(Missing, Missing),
       FullRecord(100, 100) >>

\* the sequences lifespan can leave in app.state.default_data: the parsed
\* file, or [] when loading failed
DataSets == { DefaultData, << >> }

RecordKeys(record) == {c \in Channels : record[c] # Missing}

---------------------------------------------------------------------------
(* JSON values and control frames *)

JAbsent == [t |-> "absent", v |-> 0]
JNull == [t |-> "null", v |-> 0]
JStr == [t |-> "str", v |-> 0]
JNum(n) == [t |-> "num", v |-> n]

NoMethod == "<absent>"
NonString == "<number>"
METHODS == {"z_score", "lof", "fft", "ammad"}

\* str.lower() on the method names the model sends
Lower(m) ==
    CASE m = "Z_Score" -> "z_score"
      [] m = "AMMAD" -> "ammad"
      [] m = "LOF" -> "lof"
      [] m = "Fft" -> "fft"
      [] OTHER -> m

MethodValues == {NoMethod, "fft", "Z_Score", "lof", "AMMAD", "kmeans"}
WindowValues == {JAbsent, JNull, JStr, JNum(-3)} \cup {JNum(n) : n \in 0..MaxWindow}
ThresholdValues == {JAbsent, JNum(-10), JNum(DEFAULT_SCORE_THRESHOLD), JNum(20)}
LegacyValues == {JAbsent, JNum(7)}

\* a received text: kind "object" is a JSON object with the keys below,
\* "malformed" is text json.loads rejects, "none" is no text at all
ObjectFrames ==
    [kind : {"object"}, method : MethodValues, window_size : WindowValues,
     score_threshold : ThresholdValues,
     FFT : LegacyValues, Z_score : LegacyValues, LOF : LegacyValues]

Present(j) == IF j.t = "absent" THEN 0 ELSE 1

LegacyCount(f) == Present(f.FFT) + Present(f.Z_score) + Present(f.LOF)

MainCount(f) ==
    (IF f.method = NoMethod THEN 0 ELSE 1) + Present(f.window_size)
    + Present(f.score_threshold)

EmptyFrame ==
    [kind |-> "object", method |-> NoMethod, window_size |-> JAbsent,
     score_threshold |-> JAbsent, FFT |-> JAbsent, Z_score |-> JAbsent,
     LOF |-> JAbsent]

Malformed == [EmptyFrame EXCEPT !.kind = "malformed"]
NoMsg == [EmptyFrame EXCEPT !.kind = "none"]

\* the texts a subscriber sends: every combination of method, window_size and
\* score_threshold; legacy keys alone or beside a method, up to MaxKeys keys
\* in all; and text that is not JSON
Frames ==
    {f \in ObjectFrames :
        \/ LegacyCount(f) = 0
        \/ /\ MainCount(f) + LegacyCount(f) <= MaxKeys
           /\ f.window_size = JAbsent
           /\ f.score_threshold = JAbsent}
    \cup {Malformed}

---------------------------------------------------------------------------
(* AnalysisState (analysis_utils.py) *)

\* data_buffers maps a channel to its deque; NoBuffer stands for a key the
\* defaultdict does not hold
NoBuffer == [items |-> << >>, maxlen |-> 0]
NoBuffers == [c \in Channels |-> NoBuffer]

\* deque(iterable, maxlen): keeps the last maxlen items
Deque(items, maxlen) == [items |-> LastN(items, maxlen), maxlen |-> maxlen]

\* deque.append: drops the oldest item when full
DequeAppend(d, x) == Deque(Append(d.items, x), d.maxlen)

\* AnalysisState.__init__: the default factory captures default_window_size
AnalysisStateInit(default_window_size) ==
    [method |-> "fft",
     window_size |-> default_window_size,
     score_threshold |-> DEFAULT_SCORE_THRESHOLD,
     data_buffers |-> NoBuffers,
     default_factory |-> "default_window_size",
     method_params |-> [window_size |-> default_window_size,
                        score_threshold |-> DEFAULT_SCORE_THRESHOLD]]

\* maxlen of the deque the installed default_factory builds for a new key:
\* __init__'s lambda reads the constructor argument, update_method's lambda
\* reads self.window_size when it is called
FactoryMaxlen(s) ==
    IF s.default_factory = "default_window_size"
    THEN DefaultWindow + 1
    ELSE s.window_size + 1

\* data_buffers[key]: the deque of key, created by the factory when missing
BufferOf(s, key) ==
    IF s.data_buffers[key] = NoBuffer
    THEN Deque(<< >>, FactoryMaxlen(s))
    ELSE s.data_buffers[key]

\* data_buffers[key].append(value)
AppendSample(s, key, value) ==
    [s EXCEPT !.data_buffers[key] = DequeAppend(BufferOf(s, key), value)]

\* data_buffers.clear()
ClearBuffers(s) == [s EXCEPT !.data_buffers = NoBuffers]

Done(s, status) == [st |-> s, status |-> status]

\* a method change that leaves the buffers in place
update_method_keeps_buffers(s, method) ==
    IF method = NonString
    THEN Done(s, "raise")
    ELSE LET m == Lower(method) IN
         IF m \notin METHODS
         THEN Done(s, "invalid")
         ELSE Done([s EXCEPT !.method = m], "ok")

\* the buffers are cleared for every valid name, also the current one
update_method_always_clears(s, method) ==
    IF method = NonString
    THEN Done(s, "raise")
    ELSE LET m == Lower(method) IN
         IF m \notin METHODS
         THEN Done(s, "invalid")
         ELSE Done([s EXCEPT !.method = m,
                             !.data_buffers = NoBuffers,
                             !.default_factory = "self.window_size"], "ok")

update_method(s, method) ==
    IF method = NonString
    THEN Done(s, "raise")
    ELSE LET m == Lower(method) IN
         IF m \notin METHODS
         THEN Done(s, "invalid")
         ELSE IF m # s.method
              THEN Done([s EXCEPT !.method = m,
                                  !.data_buffers = NoBuffers,
                                  !.default_factory = "self.window_size"], "ok")
              ELSE Done(s, "ok")

\* a resize that keeps the oldest samples
ResizeBuffers_keeps_head(buffers, window_size) ==
    [c \in Channels |->
        IF buffers[c] = NoBuffer
        THEN NoBuffer
        ELSE [items |-> SubSeq(buffers[c].items, 1,
                               Min(Len(buffers[c].items), window_size + 1)),
              maxlen |-> window_size + 1]]

\* the loop of update_window_size over the existing keys
ResizeBuffers(buffers, window_size) ==
    [c \in Channels |->
        IF buffers[c] = NoBuffer
        THEN NoBuffer
        ELSE Deque(buffers[c].items, window_size + 1)]

\* the value is stored before it is validated
update_window_size_stores_first(s, window_size) ==
    IF window_size.t = "str"
    THEN Done(s, "raise")
    ELSE Done([s EXCEPT !.window_size = window_size.v,
                        !.method_params.window_size = window_size.v],
              IF window_size.t = "null" \/ window_size.v < 0 THEN "invalid" ELSE "ok")

\* `<` in place of `!=`: a larger window is accepted and not applied
update_window_size_only_shrinks(s, window_size) ==
    IF window_size.t = "null"
    THEN Done(s, "invalid")
    ELSE IF window_size.t = "str"
    THEN Done(s, "raise")
    ELSE IF window_size.v < 0
    THEN Done(s, "invalid")
    ELSE IF window_size.v < s.window_size
    THEN Done([s EXCEPT !.window_size = window_size.v,
                        !.method_params.window_size = window_size.v,
                        !.data_buffers =
                            [c \in Channels |->
                                IF s.data_buffers[c] = NoBuffer
                                THEN NoBuffer
                                ELSE [items |-> IF Len(s.data_buffers[c].items) <= window_size.v + 1
                                                THEN s.data_buffers[c].items
                                                ELSE SubSeq(s.data_buffers[c].items,
                                                            Len(s.data_buffers[c].items) - window_size.v,
                                                            Len(s.data_buffers[c].items)),
                                      maxlen |-> window_size.v + 1]]],
              "ok")
    ELSE Done(s, "ok")

update_window_size(s, window_size) ==
    IF window_size.t = "null"
    THEN Done(s, "invalid")
    ELSE IF window_size.t = "str"
    THEN Done(s, "raise")
    ELSE IF window_size.v < 0
    THEN Done(s, "invalid")
    ELSE IF window_size.v # s.window_size
    THEN Done([s EXCEPT !.window_size = window_size.v,
                        !.method_params.window_size = window_size.v,
                        !.data_buffers = ResizeBuffers(s.data_buffers, window_size.v)],
              "ok")
    ELSE Done(s, "ok")

update_score_threshold(s, score_threshold) ==
    IF score_threshold.t = "null"
    THEN Done(s, "invalid")
    ELSE IF score_threshold.t = "str"
    THEN Done(s, "raise")
    ELSE IF score_threshold.v < 0
    THEN Done(s, "invalid")
    ELSE IF score_threshold.v # s.score_threshold
    THEN Done([s EXCEPT !.score_threshold = score_threshold.v,
                        !.method_params.score_threshold = score_threshold.v],
              "ok")
    ELSE Done(s, "ok")

get_method_params(s) == s.method_params

---------------------------------------------------------------------------
(* handle_websocket_message (analysis_utils.py) *)

\* the legacy key is applied whatever the method in force is
LegacyStep_any_method(s, data) ==
    LET value == IF data.FFT.t # "absent" THEN data.FFT
                 ELSE IF data.Z_score.t # "absent" THEN data.Z_score
                 ELSE IF data.LOF.t # "absent" THEN data.LOF
                 ELSE JAbsent
    IN IF value.t = "absent"
       THEN Done(s, "ok")
       ELSE LET r == update_score_threshold(s, value)
            IN Done(r.st, IF r.status = "raise" THEN "raise" ELSE "ok")

\* the legacy keys: the first branch of the if/elif chain whose key is in the
\* frame and whose method is the current one calls update_score_threshold and
\* drops its result
LegacyStep(s, data) ==
    LET value == IF data.FFT.t # "absent" /\ s.method = "fft" THEN data.FFT
                 ELSE IF data.Z_score.t # "absent" /\ s.method = "z_score" THEN data.Z_score
                 ELSE IF data.LOF.t # "absent" /\ s.method = "lof" THEN data.LOF
                 ELSE JAbsent
    IN IF value.t = "absent"
       THEN Done(s, "ok")
       ELSE LET r == update_score_threshold(s, value)
            IN Done(r.st, IF r.status = "raise" THEN "raise" ELSE "ok")

MethodStep(s, data) ==
    IF data.method = NoMethod THEN Done(s, "ok") ELSE update_method(s, data.method)

WindowStep(s, data) ==
    IF data.window_size.t = "absent"
    THEN Done(s, "ok")
    ELSE update_window_size(s, data.window_size)

ThresholdStep(s, data) ==
    IF data.score_threshold.t = "absent"
    THEN Done(s, "ok")
    ELSE update_score_threshold(s, data.score_threshold)

\* no early return: the keys after an invalid one are applied all the same
ApplyKeys_goes_on(s, data) ==
    LET r1 == MethodStep(s, data)
        r2 == WindowStep(r1.st, data)
        r3 == ThresholdStep(r2.st, data)
        r4 == LegacyStep(r3.st, data)
    IN Done(r4.st,
            IF "raise" \in {r1.status, r2.status, r3.status, r4.status} THEN "raise"
            ELSE IF "invalid" \in {r1.status, r2.status, r3.status} THEN "invalid"
            ELSE "ok")

\* all or nothing: a step that does not succeed restores the state the frame
\* found
ApplyKeys_rolls_back(s, data) ==
    LET r1 == MethodStep(s, data) IN
    IF r1.status # "ok" THEN Done(s, r1.status) ELSE
    LET r2 == WindowStep(r1.st, data) IN
    IF r2.status # "ok" THEN Done(s, r2.status) ELSE
    LET r3 == ThresholdStep(r2.st, data) IN
    IF r3.status # "ok" THEN Done(s, r3.status) ELSE
    LegacyStep(r3.st, data)

\* the try block: the steps in order, the first one that does not succeed
\* ends it
ApplyKeys(s, data) ==
    LET r1 == MethodStep(s, data) IN
    IF r1.status # "ok" THEN r1 ELSE
    LET r2 == WindowStep(r1.st, data) IN
    IF r2.status # "ok" THEN r2 ELSE
    LET r3 == ThresholdStep(r2.st, data) IN
    IF r3.status # "ok" THEN r3 ELSE
    LegacyStep(r3.st, data)

\* no except branch: what json.loads or an update raises leaves the handler
handle_websocket_message_lets_errors_through(message, s, on_error) ==
    IF message.kind = "malformed"
    THEN [st |-> s, ret |-> FALSE, reported |-> FALSE, raised |-> TRUE]
    ELSE LET r == ApplyKeys(s, message)
         IN [st |-> r.st,
             ret |-> (r.status = "ok"),
             reported |-> FALSE,
             raised |-> (r.status = "raise")]

\* result: the state afterwards, the returned flag, whether on_error was
\* called (only the except branches call it, and only when it is given), and
\* whether an exception leaves the handler (both except branches return)
handle_websocket_message(message, s, on_error) ==
    IF message.kind = "malformed"
    THEN [st |-> s, ret |-> FALSE, reported |-> on_error, raised |-> FALSE]
    ELSE LET r == ApplyKeys(s, message)
         IN [st |-> r.st,
             ret |-> (r.status = "ok"),
             reported |-> (r.status = "raise" /\ on_error),
             raised |-> FALSE]

---------------------------------------------------------------------------
(* Detectors (app/methods.py).  A detector yields "True", "False" or       *)
(* "raise".  What numpy computes from irrational intermediate values (the  *)
(* LOF density ratio, the FFT band ratio) is the input `numeric`: the      *)
(* outcome of the final comparison with score_threshold.                   *)

Verdict(b) == IF b THEN "True" ELSE "False"

SumSquares(s) == SumSeq([i \in 1..Len(s) |-> s[i] * s[i]])

\* data_list[-window_size - 1:-1]
TrailingWindow(data, window_size) ==
    IF window_size = 0
    THEN << >>
    ELSE SubSeq(data, Max(1, Len(data) - window_size), Len(data) - 1)

\* data_list[-window_size:]: the window takes in the current sample
z_score_in_window_with_current(data, window_size, score_threshold, unit) ==
    IF Len(data) <= window_size
    THEN "False"
    ELSE LET window == IF window_size = 0 THEN << >> ELSE LastN(data, window_size)
             n == Len(window)
             S == SumSeq(window)
             V == n * SumSquares(window) - S * S
             d == n * data[Len(data)] - S
         IN IF n = 0
            THEN "False"
            ELSE IF V <= (n * n * unit * unit - 1) \div 10000
            THEN "False"
            ELSE Verdict(100 * d * d > score_threshold * score_threshold * V)

\* |x - mean| / std > score_threshold over the trailing window, in integers,
\* for samples given in 1/unit: with n = len(window), S = sum, Q = sum of
\* squares, n^2 * var = n*Q - S^2
z_score_in(data, window_size, score_threshold, unit) ==
    IF Len(data) <= window_size
    THEN "False"
    ELSE LET window == TrailingWindow(data, window_size)
             n == Len(window)
             S == SumSeq(window)
             V == n * SumSquares(window) - S * S
             d == n * data[Len(data)] - S
         IN IF n = 0
            THEN "False"                    \* mean and std of [] are nan
            ELSE IF V <= (n * n * unit * unit - 1) \div 10000
            THEN "False"                    \* std < 0.01: 10000 * V < (n * unit)^2
            ELSE Verdict(100 * d * d > score_threshold * score_threshold * V)

\* z_score on samples given in whole units
z_score(data, window_size, score_threshold) ==
    z_score_in(data, window_size, score_threshold, 1)

lof(data, window_size, score_threshold, numeric) ==
    IF Len(data) <= window_size
    THEN "False"
    ELSE LET window == TrailingWindow(data, window_size)
             last_value == data[Len(data)]
         IN IF window = << >>
            THEN "raise"                    \* window[0] of an empty list
            ELSE IF /\ \A i \in 1..Len(window) : window[i] = window[1]
                    /\ last_value = window[1]
            THEN "False"
            ELSE Verdict(numeric)

\* data_list[-window_size:]
FftWindow(data, window_size) ==
    IF window_size = 0 THEN data ELSE LastN(data, window_size)

\* np.hanning is 0 at both ends, so the weighted block sums to no energy
\* exactly when every inner sample equals the mean of the block
ZeroEnergy(window) ==
    \A i \in 2..(Len(window) - 1) : Len(window) * window[i] = SumSeq(window)

fft(data, window_size, score_threshold, numeric) ==
    IF Len(data) < window_size
    THEN "False"
    ELSE IF ZeroEnergy(FftWindow(data, window_size))
    THEN "False"
    ELSE Verdict(numeric)

\* no minimum history: the limits are checked from the first sample on
AMMADDetector_detect_no_warmup(param_name, history_len, value) ==
    IF value > SAFETY_LIMITS[param_name].max
    THEN "True"
    ELSE IF value < SAFETY_LIMITS[param_name].min
    THEN "True"
    ELSE "False"

\* the lower limit is not looked at
AMMADDetector_detect_max_only(param_name, history_len, value) ==
    IF history_len < AMMAD_MIN_HISTORY
    THEN "False"
    ELSE IF value > SAFETY_LIMITS[param_name].max
    THEN "True"
    ELSE "False"

\* AMMADDetector.detect on a history that holds history_len samples once the
\* value is appended.  Up to Z_SCORE_WINDOW_SIZE samples _get_z_raw and
\* _get_fft_raw give 0.0 and z_score, lof, fft give False, so final_score is
\* sigmoid(-3) * w_z < AMMAD_SCORE_THRESHOLD and there are no votes.
AMMADDetector_detect(param_name, history_len, value) ==
    IF history_len < AMMAD_MIN_HISTORY
    THEN "False"
    ELSE IF value > SAFETY_LIMITS[param_name].max
    THEN "True"
    ELSE IF value < SAFETY_LIMITS[param_name].min
    THEN "True"
    ELSE "False"

\* one detector for every channel: param_name does not reach the table
HistoryAppend_one_detector(table, param_name) ==
    [c \in Channels |-> Min(table[c] + 1, HISTORY_MAXLEN)]

\* AMMAD_SCORE_THRESHOLD = 0.75, in thousandths
AMMAD_SCORE_THRESHOLD == 750

\* self.param_weights of the two channels: (w_z, w_lof, w_fft) in tenths
param_weights ==
    [c \in Channels |->
        IF c = Pressure THEN [z |-> 5, lof |-> 4, fft |-> 1]
                        ELSE [z |-> 8, lof |-> 1, fft |-> 1]]

\* final_score in thousandths, from the normalised signals in hundredths
final_score(param_name, s_z, s_lof, s_fft) ==
    s_z * param_weights[param_name].z + s_lof * param_weights[param_name].lof
    + s_fft * param_weights[param_name].fft

\* orig_votes.  z_score(h_list) is true iff z_raw > 3, that is s_z > 0.5;
\* lof(h_list) is true iff s_lof = 1; fft(h_list) is true iff the ratio is
\* above 0.30, that is s_fft > 0.30 / 0.45
orig_votes(s_z, s_lof, s_fft) ==
    (IF s_z > 50 THEN 1 ELSE 0) + (IF s_lof = 100 THEN 1 ELSE 0)
    + (IF 3 * s_fft > 200 THEN 1 ELSE 0)

\* the verdict is taken against the threshold the caller configured
AMMADDetector_decide_on_configured(param_name, score_threshold, s_z, s_lof, s_fft) ==
    Verdict(\/ /\ orig_votes(s_z, s_lof, s_fft) >= 2
               /\ final_score(param_name, s_z, s_lof, s_fft) >= 100 * score_threshold
            \/ final_score(param_name, s_z, s_lof, s_fft) >= 100 * score_threshold + 150)

\* AMMADDetector.detect after the limits: steps 2 to 4.  score_threshold is
\* the keyword ammad receives from its caller; detect is not given it
AMMADDetector_decide(param_name, score_threshold, s_z, s_lof, s_fft) ==
    IF orig_votes(s_z, s_lof, s_fft) >= 2
    THEN "True"
    ELSE Verdict(final_score(param_name, s_z, s_lof, s_fft) > AMMAD_SCORE_THRESHOLD)

\* the rate limits of the earlier detector's channel configurations:
\* max_change_rate of both channels and pressure_spike
max_change_rate == [c \in Channels |-> IF c = Pressure THEN 50 ELSE 5]
pressure_spike == 30

\* SAFETY_LIMITS of the earlier detector (backend/methods.py)
SAFETY_LIMITS_earlier ==
    [c \in Channels |->
        IF c = Pressure THEN [min |-> 0, max |-> 400, critical |-> 350]
                        ELSE [min |-> 3430, max |-> 3500, critical |-> 0]]

\* self.last_value of a detector: None until a sample passes the special cases
NoLastValue == [known |-> FALSE, v |-> 0]

Abs(x) == IF x < 0 THEN -x ELSE x

\* the change against self.last_value is above a limit of the channel
TooFast(param_name, last_value, value) ==
    /\ last_value.known
    /\ \/ Abs(value - last_value.v) > max_change_rate[param_name]
       \/ param_name = Pressure /\ Abs(value - last_value.v) > pressure_spike

\* last_value is stored for every sample within the limits, flagged or not
detect_special_cases_stores_always(param_name, last_value, value) ==
    IF \/ value < SAFETY_LIMITS_earlier[param_name].min
       \/ value > SAFETY_LIMITS_earlier[param_name].max
       \/ value > SAFETY_LIMITS_earlier[param_name].critical
    THEN [flag |-> "limits", last_value |-> last_value]
    ELSE [flag |-> IF TooFast(param_name, last_value, value) THEN "rate" ELSE "no",
          last_value |-> [known |-> TRUE, v |-> value]]

\* AMMADDetector._detect_special_cases of the earlier detector
\* (backend/methods.py) on a history of at least min_history samples: the
\* limits, then the change against self.last_value; self.last_value = value
\* is reached only when nothing was flagged
detect_special_cases(param_name, last_value, value) ==
    IF \/ value < SAFETY_LIMITS_earlier[param_name].min
       \/ value > SAFETY_LIMITS_earlier[param_name].max
       \/ value > SAFETY_LIMITS_earlier[param_name].critical
    THEN [flag |-> "limits", last_value |-> last_value]
    ELSE IF TooFast(param_name, last_value, value)
    THEN [flag |-> "rate", last_value |-> last_value]
    ELSE [flag |-> "no", last_value |-> [known |-> TRUE, v |-> value]]

\* deque(maxlen=300).append on the history of the channel's detector
HistoryAppend(table, param_name) ==
    [table EXCEPT ![param_name] = Min(@ + 1, HISTORY_MAXLEN)]

\* ammad(data, **kwargs): the verdict on data[-1]; the buffer is not read
\* otherwise
ammad(table, data, param_name) ==
    AMMADDetector_detect(param_name, HistoryAppend(table, param_name)[param_name],
                         data[Len(data)])

\* METHODS[method](list(data_buffer), **method_params)
CallMethod(method, data, method_params, param_name, table, numeric) ==
    CASE method = "z_score" ->
            z_score(data, method_params.window_size, method_params.score_threshold)
      [] method = "lof" ->
            lof(data, method_params.window_size, method_params.score_threshold, numeric)
      [] method = "fft" ->
            fft(data, method_params.window_size, method_params.score_threshold, numeric)
      [] method = "ammad" -> ammad(table, data, param_name)

\* TRUE iff the call reaches the comparison whose outcome is `numeric`
ReadsNumeric(method, data, method_params) ==
    /\ method \in {"lof", "fft"}
    /\ \E b \in BOOLEAN :
          CallMethod(method, data, method_params, Pressure, [c \in Channels |-> 0], b)
          # CallMethod(method, data, method_params, Pressure, [c \in Channels |-> 0], ~b)

\* apply_analysis_method (analysis_utils.py): an exception of the detector is
\* absorbed as False
apply_analysis_method(param_name, data_buffer, method, method_params, table, numeric) ==
    IF method \notin METHODS
    THEN FALSE
    ELSE IF Len(data_buffer.items) < 2
    THEN FALSE
    ELSE CallMethod(method, data_buffer.items, method_params, param_name, table,
                    numeric) = "True"

---------------------------------------------------------------------------
(* websocket_endpoint (app/main.py): one session of the stream loop *)

\* samples of Pressure that earlier AMMAD runs of the process (sessions,
\* batch requests) left in the process-wide table
PriorHistory == 18

NoDetectors == [c \in Channels |-> 0]

PriorTables ==
    { NoDetectors, [c \in Channels |-> IF c = Pressure THEN PriorHistory ELSE 0] }

NoChain ==
    [len |-> 0, pre |-> AnalysisStateInit(DefaultWindow), a |-> NoMsg,
     a_ret |-> TRUE, b |-> NoMsg]

NothingSent == [c \in Channels |-> [value |-> Missing, decision |-> FALSE]]

\* since_change counts up to SinceCap; SinceCap stands for "SinceCap or more"
SinceCap == 5

\* gap.iterations counts up to GapCap; GapCap stands for "GapCap or more"
GapCap == 3

NoGap == [iterations |-> 0, messages |-> 0]

\* the gap after one more poll: it starts anew when the previous iteration
\* emitted a frame
GapAfterPoll(g, sent_before, messages) ==
    LET base == IF sent_before THEN NoGap ELSE g
    IN [iterations |-> Min(base.iterations + 1, GapCap),
        messages |-> base.messages + messages]

\* no detector is being driven on its own
NoProbe == [kind |-> "none"]

\* no /analyze/file request is being served
IdleBatch ==
    [phase |-> "idle", method |-> "fft", method_params |-> [window_size |-> 0,
                                                            score_threshold |-> 0],
     deque_length |-> 0, file |-> << >>, i |-> 0, prev |-> NoBuffers,
     data |-> << >>, total_anomalies |-> 0,
     request |-> [method |-> "fft", window_size |-> JNull,
                  score_threshold |-> JNull, file |-> 0]]

Init ==
    /\ pc = "poll"
    /\ analysis_state = AnalysisStateInit(DefaultWindow)
    /\ ammad_detectors \in PriorTables
    /\ ammad_at_accept = ammad_detectors
    /\ parsed_data \in DataSets
    /\ record_index = 0
    /\ frames_polled = 0
    /\ last_msg = NoMsg
    /\ last_ret = TRUE
    /\ last_reported = FALSE
    /\ last_pre = AnalysisStateInit(DefaultWindow)
    /\ chain = NoChain
    /\ since_change = [c \in Channels |-> 0]
    /\ changed = FALSE
    /\ last_sent = NothingSent
    /\ just_sent = FALSE
    /\ batch = IdleBatch
    /\ responses = << >>
    /\ emitted = 0
    /\ gap = NoGap
    /\ probe = NoProbe

\* the poll takes everything that has arrived: a text sent twice is handled
\* twice in one iteration
PollMessage_drains(message_data) ==
    /\ pc = "poll"
    /\ frames_polled < MaxFrames
    /\ LET first == handle_websocket_message(message_data, analysis_state, FALSE)
           r == IF first.raised THEN first
                ELSE handle_websocket_message(message_data, first.st, FALSE)
       IN IF r.raised
          THEN /\ pc' = "closed"
               /\ analysis_state' = AnalysisStateInit(DefaultWindow)
               /\ frames_polled' = 0
               /\ record_index' = 0
               /\ last_ret' = FALSE
               /\ last_reported' = FALSE
               /\ last_pre' = AnalysisStateInit(DefaultWindow)
               /\ chain' = NoChain
               /\ since_change' = [c \in Channels |-> 0]
               /\ changed' = FALSE
               /\ emitted' = 0
               /\ gap' = NoGap
          ELSE /\ pc' = "record"
               /\ analysis_state' = r.st
               /\ frames_polled' = frames_polled + 1
               /\ chain' = IF chain.len = 1
                           THEN [chain EXCEPT !.len = 2, !.b = message_data]
                           ELSE [len |-> 1, pre |-> analysis_state, a |-> message_data,
                                 a_ret |-> r.ret, b |-> NoMsg]
               /\ last_ret' = r.ret
               /\ last_reported' = r.reported
               /\ last_pre' = analysis_state
               /\ changed' = (changed \/ r.st.method # analysis_state.method)
               /\ since_change' = IF r.st.method # analysis_state.method
                                  THEN [c \in Channels |-> 0]
                                  ELSE since_change
               /\ gap' = GapAfterPoll(gap, just_sent, 2)
               /\ UNCHANGED << record_index, emitted >>
    /\ last_msg' = message_data
    /\ just_sent' = FALSE
    /\ UNCHANGED << ammad_detectors, ammad_at_accept, parsed_data,
                    last_sent, batch, responses, probe >>

\* ws.receive_text() delivered message_data within the timeout:
\* handle_websocket_message(message_data, analysis_state), no on_error given.
\* An exception that left the handler would reach `except Exception: break`.
PollMessage(message_data) ==
    /\ pc = "poll"
    /\ frames_polled < MaxFrames
    /\ LET r == handle_websocket_message(message_data, analysis_state, FALSE)
       IN IF r.raised
          THEN /\ pc' = "closed"
               /\ analysis_state' = AnalysisStateInit(DefaultWindow)
               /\ frames_polled' = 0
               /\ record_index' = 0
               /\ last_ret' = FALSE
               /\ last_reported' = FALSE
               /\ last_pre' = AnalysisStateInit(DefaultWindow)
               /\ chain' = NoChain
               /\ since_change' = [c \in Channels |-> 0]
               /\ changed' = FALSE
               /\ emitted' = 0
               /\ gap' = NoGap
          ELSE /\ pc' = "record"
               /\ analysis_state' = r.st
               /\ frames_polled' = frames_polled + 1
               /\ chain' = IF chain.len = 1
                           THEN [chain EXCEPT !.len = 2, !.b = message_data]
                           ELSE [len |-> 1, pre |-> analysis_state, a |-> message_data,
                                 a_ret |-> r.ret, b |-> NoMsg]
               /\ last_ret' = r.ret
               /\ last_reported' = r.reported
               /\ last_pre' = analysis_state
               /\ changed' = (changed \/ r.st.method # analysis_state.method)
               /\ since_change' = IF r.st.method # analysis_state.method
                                  THEN [c \in Channels |-> 0]
                                  ELSE since_change
               /\ gap' = GapAfterPoll(gap, just_sent, 1)
               /\ UNCHANGED << record_index, emitted >>
    /\ last_msg' = message_data
    /\ just_sent' = FALSE
    /\ UNCHANGED << ammad_detectors, ammad_at_accept, parsed_data,
                    last_sent, batch, responses, probe >>

\* asyncio.TimeoutError: no message, go on with the data
PollTimeout ==
    /\ pc = "poll"
    /\ pc' = "record"
    /\ last_msg' = NoMsg
    /\ last_ret' = TRUE
    /\ last_reported' = FALSE
    /\ last_pre' = analysis_state
    /\ chain' = IF chain.len = 1 THEN chain ELSE NoChain
    /\ just_sent' = FALSE
    /\ gap' = GapAfterPoll(gap, just_sent, 0)
    /\ UNCHANGED << analysis_state, ammad_detectors, ammad_at_accept, parsed_data,
                    record_index, frames_polled, since_change, changed, last_sent,
                    batch, responses, emitted, probe >>

\* `continue` in place of `break`: the loop starts over on a failure
Released_keeps_polling ==
    /\ pc' = "poll"
    /\ analysis_state' = AnalysisStateInit(DefaultWindow)
    /\ record_index' = 0
    /\ frames_polled' = frames_polled
    /\ last_msg' = NoMsg
    /\ last_ret' = TRUE
    /\ last_reported' = FALSE
    /\ last_pre' = AnalysisStateInit(DefaultWindow)
    /\ chain' = NoChain
    /\ since_change' = [c \in Channels |-> 0]
    /\ changed' = FALSE
    /\ just_sent' = FALSE
    /\ emitted' = 0
    /\ gap' = NoGap

\* break: the coroutine returns and its locals are released; the table and
\* what the subscriber received stay
Released ==
    /\ pc' = "closed"
    /\ analysis_state' = AnalysisStateInit(DefaultWindow)
    /\ record_index' = 0
    /\ frames_polled' = 0
    /\ last_msg' = NoMsg
    /\ last_ret' = TRUE
    /\ last_reported' = FALSE
    /\ last_pre' = AnalysisStateInit(DefaultWindow)
    /\ chain' = NoChain
    /\ since_change' = [c \in Channels |-> 0]
    /\ changed' = FALSE
    /\ just_sent' = FALSE
    /\ emitted' = 0
    /\ gap' = NoGap

\* WebSocketDisconnect or another exception of receive_text: break
PollDisconnect ==
    /\ pc = "poll"
    /\ Released
    /\ UNCHANGED << ammad_detectors, ammad_at_accept, parsed_data, last_sent,
                    batch, responses, probe >>

\* the buffers after the for loop over record.items() appended every value
BuffersAfter(s, record) ==
    [c \in Channels |->
        IF c \in RecordKeys(record)
        THEN AppendSample(s, c, record[c]).data_buffers[c]
        ELSE s.data_buffers[c]]

\* the detector is called for the channels whose buffer holds two samples
Called(s, record, c) ==
    /\ c \in RecordKeys(record)
    /\ Len(BuffersAfter(s, record)[c].items) >= 2

\* data[key][1] of the frame
DecisionFor(s, record, c, table, numeric) ==
    /\ Called(s, record, c)
    /\ apply_analysis_method(c, BuffersAfter(s, record)[c], s.method,
                             get_method_params(s), table, numeric)

\* a channel's detector starts anew when the channel's buffer does
TableAfter_restarts_with_buffer(s, record, table) ==
    [c \in Channels |->
        IF Called(s, record, c) /\ s.method = "ammad"
        THEN HistoryAppend(table, c)[c]
        ELSE IF c \in RecordKeys(record) /\ s.method = "ammad"
        THEN 1
        ELSE table[c]]

\* the table after the detector calls of one record
TableAfter(s, record, table) ==
    [c \in Channels |->
        IF Called(s, record, c) /\ s.method = "ammad"
        THEN HistoryAppend(table, c)[c]
        ELSE table[c]]

\* record_index < len(parsed_data): append, detect, send
ProcessRecord(numeric, sent) ==
    /\ pc = "record"
    /\ record_index < Len(parsed_data)
    /\ LET record == parsed_data[record_index + 1]
           buffers == BuffersAfter(analysis_state, record)
       IN /\ \A c \in Channels :
                numeric[c] =>
                    /\ Called(analysis_state, record, c)
                    /\ ReadsNumeric(analysis_state.method, buffers[c].items,
                                    get_method_params(analysis_state))
          /\ \A c \in Channels :
                Called(analysis_state, record, c) /\ analysis_state.method = "ammad"
                    => ammad_detectors[c] < ammad_at_accept[c] + MaxAmmadCalls
          /\ ammad_detectors' = TableAfter(analysis_state, record, ammad_detectors)
          /\ IF sent
             THEN /\ analysis_state' = [analysis_state EXCEPT !.data_buffers = buffers]
                  /\ last_sent' =
                        [c \in Channels |->
                            [value |-> record[c],
                             decision |-> DecisionFor(analysis_state, record, c,
                                                      ammad_detectors, numeric[c])]]
                  /\ record_index' = record_index + 1
                  /\ pc' = "poll"
                  /\ just_sent' = TRUE
                  /\ since_change' =
                        [c \in Channels |->
                            IF c \in RecordKeys(record)
                            THEN Min(since_change[c] + 1, SinceCap)
                            ELSE since_change[c]]
                  /\ chain' = IF RecordKeys(record) = {} /\ chain.len = 1
                              THEN chain ELSE NoChain
                  /\ last_msg' = NoMsg
                  /\ last_ret' = TRUE
                  /\ last_reported' = FALSE
                  /\ last_pre' = analysis_state
                  /\ emitted' = (emitted + 1) % Len(parsed_data)
                  /\ UNCHANGED << frames_polled, changed, gap >>
             ELSE /\ Released
                  /\ UNCHANGED last_sent
    /\ UNCHANGED << ammad_at_accept, parsed_data, batch, responses, probe >>

\* the cursor goes back to 0 and the buffers stay as they are
EndOfSequence_keeps_buffers ==
    /\ pc = "record"
    /\ record_index >= Len(parsed_data)
    /\ record_index' = 0
    /\ pc' = "poll"
    /\ last_msg' = NoMsg
    /\ last_ret' = TRUE
    /\ last_reported' = FALSE
    /\ last_pre' = analysis_state
    /\ chain' = NoChain
    /\ just_sent' = FALSE
    /\ UNCHANGED << analysis_state, ammad_detectors, ammad_at_accept, parsed_data,
                    frames_polled, since_change, changed, last_sent, batch,
                    responses, emitted, gap, probe >>

\* the buffers are cleared and the cursor stays at the end
EndOfSequence_stays_at_end ==
    /\ pc = "record"
    /\ record_index >= Len(parsed_data)
    /\ record_index' = record_index
    /\ analysis_state' = ClearBuffers(analysis_state)
    /\ pc' = "poll"
    /\ last_msg' = NoMsg
    /\ last_ret' = TRUE
    /\ last_reported' = FALSE
    /\ last_pre' = analysis_state
    /\ chain' = NoChain
    /\ just_sent' = FALSE
    /\ UNCHANGED << ammad_detectors, ammad_at_accept, parsed_data, frames_polled,
                    since_change, changed, last_sent, batch, responses, emitted,
                    gap, probe >>

\* the end of the data: start again and clear the buffers
EndOfSequence ==
    /\ pc = "record"
    /\ record_index >= Len(parsed_data)
    /\ record_index' = 0
    /\ analysis_state' = ClearBuffers(analysis_state)
    /\ pc' = "poll"
    /\ last_msg' = NoMsg
    /\ last_ret' = TRUE
    /\ last_reported' = FALSE
    /\ last_pre' = analysis_state
    /\ chain' = NoChain
    /\ just_sent' = FALSE
    /\ UNCHANGED << ammad_detectors, ammad_at_accept, parsed_data, frames_polled,
                    since_change, changed, last_sent, batch, responses, emitted,
                    gap, probe >>

Next ==
    \/ \E message_data \in Frames : PollMessage(message_data)
    \/ PollTimeout
    \/ PollDisconnect
    \/ \E numeric \in [Channels -> BOOLEAN], sent \in BOOLEAN :
          ProcessRecord(numeric, sent)
    \/ EndOfSequence

Spec == Init /\ [][Next]_vars

TypeOK ==
    /\ pc \in {"poll", "record", "closed"}
    /\ analysis_state.method \in METHODS
    /\ analysis_state.window_size \in 0..(Max(DefaultWindow, MaxWindow))
    /\ record_index \in 0..Len(parsed_data)

---------------------------------------------------------------------------
(* analyze_file (app/main.py): the batch request POST /analyze/file *)

LOF_WINDOW_SIZE == 60
FFT_WINDOW_SIZE == 64
Z_SCORE_THRESHOLD == 30
LOF_SCORE_THRESHOLD == 250
FFT_SCORE_THRESHOLD == 3

DEFAULT_WINDOWS_SIZE == Max(FFT_WINDOW_SIZE, Max(LOF_WINDOW_SIZE, Z_SCORE_WINDOW_SIZE))

\* the keyword defaults of the detectors, used for a key method_params lacks
DetectorDefaults(method) ==
    CASE method = "z_score" ->
            [window_size |-> Z_SCORE_WINDOW_SIZE, score_threshold |-> Z_SCORE_THRESHOLD]
      [] method = "lof" ->
            [window_size |-> LOF_WINDOW_SIZE, score_threshold |-> LOF_SCORE_THRESHOLD]
      [] method = "fft" ->
            [window_size |-> FFT_WINDOW_SIZE, score_threshold |-> FFT_SCORE_THRESHOLD]
      [] OTHER -> [window_size |-> 0, score_threshold |-> 0]

\* `x and x >= 0` on a query parameter: None, 0 and negatives do not count
Given(j) == j.t = "num" /\ j.v > 0

\* the parameters the detector runs with: method_params, then its defaults
BatchParams(method, window_size, score_threshold) ==
    [window_size |-> IF Given(window_size) THEN window_size.v
                     ELSE DetectorDefaults(method).window_size,
     score_threshold |-> IF Given(score_threshold) THEN score_threshold.v
                         ELSE DetectorDefaults(method).score_threshold]

\* largest window_size a request asks for
BatchWindow == 2
\* requests the process serves
MaxRequests == 2

\* one parsed row: the time column and the channels that are not NaN
BatchRecord(t, p, d) == [time |-> t, values |-> FullRecord(p, d)]

\* the uploads: parsed is FALSE when parse_data gives None (no time column)
BatchFiles ==
    << [parsed |-> TRUE,
        rows |-> << BatchRecord(1, 100, 100), BatchRecord(2, 500, 101),
                    BatchRecord(3, Missing, Missing), BatchRecord(4, 100, 100) >>],
       [parsed |-> TRUE,
        rows |-> << BatchRecord(7, 500, 100), BatchRecord(8, 100, Missing) >>],
       [parsed |-> TRUE,
        rows |-> << BatchRecord(1, 100, 100), BatchRecord(2, 102, 100),
                    BatchRecord(3, 100, 300) >>],
       [parsed |-> TRUE, rows |-> << >>],
       [parsed |-> FALSE, rows |-> << >>] >>

Requests ==
    [method : {"Z_Score", "AMMAD", "lof", "fft", "kmeans"},
     window_size : {JNull, JNum(0), JNum(BatchWindow)},
     score_threshold : {JNull, JNum(DEFAULT_SCORE_THRESHOLD)},
     file : DOMAIN BatchFiles]

NoCell == [present |-> FALSE, value |-> Missing, decision |-> FALSE]

\* the JSON a request returns: status 200 with the counters and the rows, or
\* an error status with no rows
Response(request, status, data, total_anomalies) ==
    [request |-> request, status |-> status, total_records |-> Len(data),
     total_anomalies |-> total_anomalies, data |-> data]

\* prev after the appends of one row: prev[key].append(value) for every key
BatchPrevAfter(b, record) ==
    [c \in Channels |->
        IF c \in RecordKeys(record.values)
        THEN DequeAppend(IF b.prev[c] = NoBuffer
                         THEN Deque(<< >>, b.deque_length)
                         ELSE b.prev[c],
                         record.values[c])
        ELSE b.prev[c]]

\* list(record.keys()): the channels of a row in column order
ChannelOrder == << Pressure, Depth >>

KeyList(record) ==
    SelectSeq(ChannelOrder, LAMBDA c : c \in RecordKeys(record.values))

\* the orders in which the event loop can run the n tasks of a row
Orders(n) ==
    {o \in [1..n -> 1..n] : \A i, j \in 1..n : o[i] = o[j] => i = j}

RowOrders == UNION {Orders(n) : n \in 0..Cardinality(Channels)}

\* the tasks of a row run to their end one after another, in `order`: task j
\* reads the snapshot list(prev[keys[j]]) taken when it was created and, for
\* ammad, the table as the tasks before it left it
RECURSIVE RunTasks(_, _, _, _, _, _, _)
RunTasks(b, keys, snapshots, table, numeric, order, done) ==
    IF order = << >>
    THEN [results |-> done, table |-> table]
    ELSE LET j == Head(order)
             c == keys[j]
             r == CallMethod(b.method, snapshots[c].items, b.method_params, c,
                             table, numeric[c])
             t == IF b.method = "ammad" THEN HistoryAppend(table, c) ELSE table
         IN RunTasks(b, keys, snapshots, t, numeric, Tail(order),
                     [done EXCEPT ![j] = r])

\* the results come back in the order the tasks finished
gather_as_completed(b, record, table, numeric, order) ==
    LET keys == KeyList(record)
        run == RunTasks(b, keys, BatchPrevAfter(b, record), table, numeric, order,
                        [j \in 1..Len(keys) |-> "False"])
    IN [results |-> [i \in 1..Len(keys) |-> run.results[order[i]]],
        table |-> run.table]

\* asyncio.gather(*tasks): results[j] is what task j returned, whatever the
\* order the tasks ran in
gather(b, record, table, numeric, order) ==
    LET keys == KeyList(record)
    IN RunTasks(b, keys, BatchPrevAfter(b, record), table, numeric, order,
                [j \in 1..Len(keys) |-> "False"])

\* for j, key in enumerate(keys): results[j] belongs to key
ResultsByKey(record, results) ==
    [c \in Channels |->
        IF \E j \in DOMAIN results : KeyList(record)[j] = c
        THEN results[CHOOSE j \in DOMAIN results : KeyList(record)[j] = c]
        ELSE "False"]

\* what METHODS[method] gives for every key of the row when each call is
\* looked at on its own
BatchResults(b, record, table, numeric) ==
    [c \in Channels |->
        IF c \in RecordKeys(record.values)
        THEN CallMethod(b.method, BatchPrevAfter(b, record)[c].items, b.method_params,
                        c, table, numeric[c])
        ELSE "False"]

\* every channel gets a cell, also the ones the record has no value for
BatchRowData_every_channel(record, results) ==
    [time |-> record.time,
     cells |-> [c \in Channels |->
                   [present |-> TRUE, value |-> record.values[c],
                    decision |-> (results[c] = "True")]]]

\* data[i]: [value, is_anomaly] under every key of the record, and the time
BatchRowData(record, results) ==
    [time |-> record.time,
     cells |-> [c \in Channels |->
                   IF c \in RecordKeys(record.values)
                   THEN [present |-> TRUE, value |-> record.values[c],
                         decision |-> (results[c] = "True")]
                   ELSE NoCell]]

\* a row counts once, however many of its channels are anomalous
RowAnomalies_one_per_row(record, results) ==
    IF \E c \in RecordKeys(record.values) : results[c] = "True" THEN 1 ELSE 0

\* what one row adds to total_anomalies
RowAnomalies(record, results) ==
    Cardinality({c \in RecordKeys(record.values) : results[c] = "True"})

\* the handler up to the loop: method check, method_params, parse, filter
BatchRequest(request) ==
    /\ batch.phase = "idle"
    /\ Len(responses) < MaxRequests
    /\ responses # << >> => request = responses[Len(responses)].request
    /\ LET method == Lower(request.method)
           file == BatchFiles[request.file]
       IN IF method \notin METHODS \/ ~file.parsed
          THEN /\ responses' = Append(responses, Response(request, 400, << >>, 0))
               /\ UNCHANGED batch
          ELSE /\ batch' =
                    [phase |-> "rows",
                     method |-> method,
                     method_params |-> BatchParams(method, request.window_size,
                                                   request.score_threshold),
                     deque_length |-> (IF Given(request.window_size)
                                       THEN request.window_size.v
                                       ELSE DEFAULT_WINDOWS_SIZE) + 1,
                     file |-> file.rows, i |-> 0, prev |-> NoBuffers,
                     data |-> << >>, total_anomalies |-> 0, request |-> request]
               /\ UNCHANGED responses
    /\ UNCHANGED << ammad_detectors, ammad_at_accept >>
    /\ UNCHANGED session_vars
    /\ UNCHANGED probe

\* one iteration of `for i, record in enumerate(parsed_data)`; an exception
\* of a detector leaves gather and the handler, and the request fails
BatchRow(numeric, order) ==
    /\ batch.phase = "rows"
    /\ batch.i < Len(batch.file)
    /\ LET record == batch.file[batch.i + 1]
           keys == RecordKeys(record.values)
           prev == BatchPrevAfter(batch, record)
           gathered == gather(batch, record, ammad_detectors, numeric, order)
           results == ResultsByKey(record, gathered.results)
       IN /\ order \in Orders(Len(KeyList(record)))
          /\ \A c \in Channels :
                numeric[c] =>
                    /\ c \in keys
                    /\ ReadsNumeric(batch.method, prev[c].items, batch.method_params)
          /\ \A c \in keys :
                batch.method = "ammad" => ammad_detectors[c] < Z_SCORE_WINDOW_SIZE
          /\ ammad_detectors' = gathered.table
          /\ IF \E c \in keys : results[c] = "raise"
             THEN /\ responses' = Append(responses,
                                         Response(batch.request, 500, << >>, 0))
                  /\ batch' = IdleBatch
             ELSE /\ batch' = [batch EXCEPT
                                  !.i = @ + 1,
                                  !.prev = prev,
                                  !.data = Append(@, BatchRowData(record, results)),
                                  !.total_anomalies = @ + RowAnomalies(record, results)]
                  /\ UNCHANGED responses
    /\ UNCHANGED ammad_at_accept
    /\ UNCHANGED session_vars
    /\ UNCHANGED probe

\* return {"total_records", "total_anomalies", "data"}
BatchRespond ==
    /\ batch.phase = "rows"
    /\ batch.i >= Len(batch.file)
    /\ responses' = Append(responses,
                           Response(batch.request, 200, batch.data,
                                    batch.total_anomalies))
    /\ batch' = IdleBatch
    /\ UNCHANGED << ammad_detectors, ammad_at_accept >>
    /\ UNCHANGED session_vars
    /\ UNCHANGED probe

\* the process with no subscriber connected
BatchInit ==
    /\ pc = "closed"
    /\ analysis_state = AnalysisStateInit(DefaultWindow)
    /\ ammad_detectors \in PriorTables
    /\ ammad_at_accept = ammad_detectors
    /\ parsed_data = << >>
    /\ record_index = 0
    /\ frames_polled = 0
    /\ last_msg = NoMsg
    /\ last_ret = TRUE
    /\ last_reported = FALSE
    /\ last_pre = AnalysisStateInit(DefaultWindow)
    /\ chain = NoChain
    /\ since_change = [c \in Channels |-> 0]
    /\ changed = FALSE
    /\ last_sent = NothingSent
    /\ just_sent = FALSE
    /\ batch = IdleBatch
    /\ responses = << >>
    /\ emitted = 0
    /\ gap = NoGap
    /\ probe = NoProbe

BatchNext ==
    \/ \E request \in Requests : BatchRequest(request)
    \/ \E numeric \in [Channels -> BOOLEAN], order \in RowOrders :
          BatchRow(numeric, order)
    \/ BatchRespond

BatchSpec == BatchInit /\ [][BatchNext]_vars

---------------------------------------------------------------------------
(* A detector driven on its own: samples fed one at a time through a       *)
(* channel buffer, as both orchestrators feed them                         *)

\* longest stream and largest window of a detector driven on its own
ProbeLen == 4
ProbeWindow == 3

\* scenario S1 of the tests, in tenths
QuickStream == << 100, 101, 102, 101, 103, 500 >>

\* samples in thousandths: 0.000, 0.010, 0.040 and 1.000; the windows they
\* form have a standard deviation of 0, near 0.005 or above 0.014
ProbeSamples == {0, 10, 40, 1000}

ProbeStreams == UNION {[1..n -> ProbeSamples] : n \in 1..ProbeLen}

Feeding(stream, window_size, score_threshold, unit) ==
    [kind |-> "feed", stream |-> stream, window_size |-> window_size,
     score_threshold |-> score_threshold, unit |-> unit,
     buffer |-> Deque(<< >>, window_size + 1), decisions |-> << >>]

\* the normalised signals AMMAD is driven with, in hundredths: s_z is a
\* sigmoid, s_lof is 0 or 1, s_fft lies in 0..1
SignalsZ == {5, 60, 85, 95}
SignalsLof == {0, 100}
SignalsFft == {0, 70, 100}

\* samples within the safety limits whose steps lie on both sides of the
\* rate limits of their channel
RateSamples ==
    [c \in Channels |-> IF c = Pressure THEN {100, 120, 200} ELSE {100, 103, 110}]
RateLen == 3

\* a detector that has its minimum history and is fed `stream`; variant
\* "app" is AMMADDetector of app/methods.py, "earlier" the one of
\* backend/methods.py.  flagged tells for every sample fed what flagged it:
\* "limits", "rate" or "no"
Rating(variant, param_name, stream) ==
    [kind |-> "rate", variant |-> variant, param_name |-> param_name,
     stream |-> stream, last_value |-> NoLastValue, flagged |-> << >>]

Deciding(param_name, score_threshold, s_z, s_lof, s_fft) ==
    [kind |-> "decide", param_name |-> param_name,
     score_threshold |-> score_threshold,
     s_z |-> s_z, s_lof |-> s_lof, s_fft |-> s_fft, verdict |-> "none"]

ProbeInputs ==
    {Feeding(QuickStream, 5, 20, 10)}
    \cup {Feeding(stream, W, Z_SCORE_THRESHOLD, 1000) :
             stream \in ProbeStreams, W \in 0..ProbeWindow}
    \cup {Rating(variant, c, stream) :
             variant \in {"app", "earlier"}, c \in Channels,
             stream \in UNION {[1..RateLen -> RateSamples[ch]] : ch \in Channels}}
    \cup {Deciding(c, threshold, s_z, s_lof, s_fft) :
             c \in Channels, threshold \in {0, DEFAULT_SCORE_THRESHOLD, 20},
             s_z \in SignalsZ, s_lof \in SignalsLof, s_fft \in SignalsFft}

\* prev[key].append(value), then z_score(list(prev[key]), W, threshold)
FeedSample ==
    /\ probe.kind = "feed"
    /\ Len(probe.decisions) < Len(probe.stream)
    /\ LET value == probe.stream[Len(probe.decisions) + 1]
           buffer == DequeAppend(probe.buffer, value)
       IN probe' = [probe EXCEPT
                       !.buffer = buffer,
                       !.decisions =
                           Append(@, z_score_in(buffer.items, probe.window_size,
                                                probe.score_threshold,
                                                probe.unit) = "True")]
    /\ UNCHANGED << ammad_detectors, ammad_at_accept, batch, responses >>
    /\ UNCHANGED session_vars

\* ammad(data, score_threshold=..., param_name=...) on a sample within the
\* limits of a channel with history enough
Decide ==
    /\ probe.kind = "decide"
    /\ probe.verdict = "none"
    /\ probe' = [probe EXCEPT
                    !.verdict = AMMADDetector_decide(probe.param_name,
                                                     probe.score_threshold,
                                                     probe.s_z, probe.s_lof,
                                                     probe.s_fft)]
    /\ UNCHANGED << ammad_detectors, ammad_at_accept, batch, responses >>
    /\ UNCHANGED session_vars

\* detector.detect(value) on the next sample of the stream
FeedRate ==
    /\ probe.kind = "rate"
    /\ Len(probe.flagged) < Len(probe.stream)
    /\ LET value == probe.stream[Len(probe.flagged) + 1]
           r == IF probe.variant = "app"
                THEN [flag |-> IF AMMADDetector_detect(
                                      probe.param_name,
                                      AMMAD_MIN_HISTORY + Len(probe.flagged),
                                      value) = "True"
                               THEN "limits" ELSE "no",
                      last_value |-> probe.last_value]
                ELSE detect_special_cases(probe.param_name, probe.last_value, value)
       IN probe' = [probe EXCEPT !.flagged = Append(@, r.flag),
                                 !.last_value = r.last_value]
    /\ UNCHANGED << ammad_detectors, ammad_at_accept, batch, responses >>
    /\ UNCHANGED session_vars

ProbeInit ==
    /\ pc = "closed"
    /\ analysis_state = AnalysisStateInit(DefaultWindow)
    /\ ammad_detectors = NoDetectors
    /\ ammad_at_accept = ammad_detectors
    /\ parsed_data = << >>
    /\ record_index = 0
    /\ frames_polled = 0
    /\ last_msg = NoMsg
    /\ last_ret = TRUE
    /\ last_reported = FALSE
    /\ last_pre = AnalysisStateInit(DefaultWindow)
    /\ chain = NoChain
    /\ since_change = [c \in Channels |-> 0]
    /\ changed = FALSE
    /\ last_sent = NothingSent
    /\ just_sent = FALSE
    /\ batch = IdleBatch
    /\ responses = << >>
    /\ emitted = 0
    /\ gap = NoGap
    /\ probe \in ProbeInputs

ProbeNext ==
    \/ FeedSample
    \/ Decide
    \/ FeedRate

ProbeSpec == ProbeInit /\ [][ProbeNext]_vars

---------------------------------------------------------------------------
(* The streaming session as it runs on: the coroutine is always scheduled   *)
(* again, the subscriber may or may not send control frames                 *)

\* the largest window a subscriber asks for here: past the capacity
\* DefaultWindow + 1 of the buffers the constructor's factory builds
LiveWindow == DefaultWindow + 2

\* a pass long enough to fill a window of LiveWindow samples
LiveData ==
    << FullRecord(100, 100), FullRecord(101, 100), FullRecord(102, 101),
       FullRecord(101, 101), FullRecord(103, 102), FullRecord(100, 102) >>

\* what lifespan leaves in app.state.default_data: the records, or [] when
\* load_and_analyze_data failed or the file held no rows
LiveDataSets == { LiveData, << >> }

\* the control frames: a method, a window, or both
LiveFrames ==
    {[EmptyFrame EXCEPT !.method = m, !.window_size = w] :
        m \in {NoMethod, "Z_Score", "lof", "fft"},
        w \in {JAbsent, JNum(1), JNum(LiveWindow)}}

LiveInit ==
    /\ pc = "poll"
    /\ analysis_state = AnalysisStateInit(DefaultWindow)
    /\ ammad_detectors = NoDetectors
    /\ ammad_at_accept = ammad_detectors
    /\ parsed_data \in LiveDataSets
    /\ record_index = 0
    /\ frames_polled = 0
    /\ last_msg = NoMsg
    /\ last_ret = TRUE
    /\ last_reported = FALSE
    /\ last_pre = AnalysisStateInit(DefaultWindow)
    /\ chain = NoChain
    /\ since_change = [c \in Channels |-> 0]
    /\ changed = FALSE
    /\ last_sent = NothingSent
    /\ just_sent = FALSE
    /\ batch = IdleBatch
    /\ responses = << >>
    /\ emitted = 0
    /\ gap = NoGap
    /\ probe = NoProbe

LiveNext ==
    \/ \E message_data \in LiveFrames : PollMessage(message_data)
    \/ PollTimeout
    \/ PollDisconnect
    \/ \E numeric \in [Channels -> BOOLEAN], sent \in BOOLEAN :
          ProcessRecord(numeric, sent)
    \/ EndOfSequence

\* what the loop does by itself: wait_for gives up after 0.01 s, the
\* detectors return, send_json and sleep complete
Iterate ==
    \/ PollTimeout
    \/ \E numeric \in [Channels -> BOOLEAN] : ProcessRecord(numeric, TRUE)
    \/ EndOfSequence

LiveSpec == LiveInit /\ [][LiveNext]_vars /\ WF_vars(Iterate)

---------------------------------------------------------------------------
(* Claims *)

IsFrame(m) == m.kind = "object"
NoLegacy(m) == m.FFT = JAbsent /\ m.Z_score = JAbsent /\ m.LOF = JAbsent
SomeBuffer(s) == \E c \in Channels : s.data_buffers[c] # NoBuffer
MethodChanged == IsFrame(last_msg) /\ analysis_state.method # last_pre.method

\* C1: when update_method, called directly or for the method key of a control
\* frame, changes the method to another valid one, no channel has a buffer
\* afterwards, whatever the buffers held.
C1_MethodChangeClearsBuffers ==
    /\ MethodChanged => analysis_state.data_buffers = NoBuffers
    /\ \A name \in MethodValues \ {NoMethod} :
          LET r == update_method(analysis_state, name)
          IN (r.status = "ok" /\ r.st.method # analysis_state.method)
                => r.st.data_buffers = NoBuffers

C1_Witness ==
    /\ MethodChanged
    /\ \A c \in Channels : Len(last_pre.data_buffers[c].items) >= 2
    /\ analysis_state.data_buffers = NoBuffers

\* the samples a channel must have accumulated before its detector judges
MinSamples(method, window_size) ==
    CASE method = "fft" -> window_size
      [] method = "ammad" -> AMMAD_MIN_HISTORY
      [] OTHER -> window_size + 1

\* C2: once a control frame has changed the method, a channel's decision in
\* an emitted frame is true only if the channel has accumulated, since the
\* change, the minimum number of samples of the method in force.
C2_WarmupRestartsAfterChange ==
    (just_sent /\ changed) =>
        \A c \in Channels :
            last_sent[c].decision =>
                \/ since_change[c] = SinceCap
                \/ since_change[c] >= MinSamples(analysis_state.method,
                                                 analysis_state.window_size)

\* C3: every existing channel buffer has capacity W + 1 for the current W.
C3_CapacityFollowsWindow ==
    \A c \in Channels :
        analysis_state.data_buffers[c] # NoBuffer
            => analysis_state.data_buffers[c].maxlen = analysis_state.window_size + 1

WindowChanged ==
    /\ IsFrame(last_msg)
    /\ analysis_state.method = last_pre.method
    /\ analysis_state.window_size # last_pre.window_size

\* C4: after update_window_size changed W, every buffer that existed holds
\* the last min(old_len, W + 1) of its samples, in their order.
C4_ResizeKeepsTail ==
    WindowChanged =>
        \A c \in Channels :
            LET old == last_pre.data_buffers[c].items
                new == analysis_state.data_buffers[c].items
                kept == Min(Len(old), analysis_state.window_size + 1)
            IN last_pre.data_buffers[c] # NoBuffer =>
                  /\ analysis_state.data_buffers[c] # NoBuffer
                  /\ Len(new) = kept
                  /\ \A i \in 1..kept : new[i] = old[Len(old) - kept + i]

C4_Witness ==
    /\ WindowChanged
    /\ \E c \in Channels :
          /\ Len(last_pre.data_buffers[c].items) > analysis_state.window_size + 1
          /\ analysis_state.data_buffers[c].items # << >>
          /\ analysis_state.data_buffers[c].items[1] # last_pre.data_buffers[c].items[1]

\* C5: every channel buffer has len <= cap and cap >= 2.
C5_BufferBounds ==
    \A c \in Channels :
        analysis_state.data_buffers[c] # NoBuffer
            => /\ Len(analysis_state.data_buffers[c].items)
                    <= analysis_state.data_buffers[c].maxlen
               /\ analysis_state.data_buffers[c].maxlen >= 2

WindowOnlyInvalid(m) ==
    /\ IsFrame(m)
    /\ m.method = NoMethod
    /\ m.score_threshold = JAbsent
    /\ NoLegacy(m)
    /\ m.window_size \in {JNull, JNum(-3)}

\* C6: a control frame whose only key is window_size, negative or null,
\* leaves method, W, threshold, method_params and all buffers as they were.
C6_InvalidWindowChangesNothing ==
    WindowOnlyInvalid(last_msg) => (analysis_state = last_pre /\ ~last_ret)

C6_Witness ==
    /\ WindowOnlyInvalid(last_msg)
    /\ last_msg.window_size = JNum(-3)
    /\ SomeBuffer(last_pre)
    /\ analysis_state = last_pre

UnknownMethod(m) ==
    IsFrame(m) /\ m.method \notin {NoMethod, NonString} /\ Lower(m.method) \notin METHODS

\* the spellings the model sends of the four names
Spelled(name) ==
    CASE name = "z_score" -> {"z_score", "Z_Score"}
      [] name = "ammad" -> {"ammad", "AMMAD"}
      [] name = "lof" -> {"lof", "LOF"}
      [] name = "fft" -> {"fft", "Fft"}

\* C7: a control frame with a method outside z_score, lof, fft, ammad changes
\* nothing, whatever else it carries; a valid name in any letter case becomes
\* the method.
C7_UnknownMethodRejectsFrame ==
    /\ UnknownMethod(last_msg) => (analysis_state = last_pre /\ ~last_ret)
    /\ \A name \in METHODS :
          (IsFrame(last_msg) /\ last_msg.method \in Spelled(name))
              => analysis_state.method = name

C7_Witness ==
    /\ UnknownMethod(last_msg)
    /\ last_msg.window_size.t = "num"
    /\ last_msg.window_size.v >= 0
    /\ last_msg.window_size.v # last_pre.window_size
    /\ SomeBuffer(last_pre)
    /\ analysis_state = last_pre

\* C8: every control frame the handler rejects is reported to on_error.
C8_RejectedFrameIsReported ==
    (last_msg.kind # "none" /\ ~last_ret) => last_reported

\* A (+) B: the value of B for every key B carries, else that of A
Merge(a, b) ==
    [kind |-> "object",
     method |-> IF b.method # NoMethod THEN b.method ELSE a.method,
     window_size |-> IF b.window_size # JAbsent THEN b.window_size ELSE a.window_size,
     score_threshold |-> IF b.score_threshold # JAbsent THEN b.score_threshold
                         ELSE a.score_threshold,
     FFT |-> IF b.FFT # JAbsent THEN b.FFT ELSE a.FFT,
     Z_score |-> IF b.Z_score # JAbsent THEN b.Z_score ELSE a.Z_score,
     LOF |-> IF b.LOF # JAbsent THEN b.LOF ELSE a.LOF]

Merged == handle_websocket_message(Merge(chain.a, chain.b), chain.pre, FALSE).st

Configuration(s) ==
    << s.method, s.window_size, s.score_threshold, s.method_params >>

TwoFrames == chain.len = 2 /\ IsFrame(chain.a) /\ IsFrame(chain.b)

\* C9 as stated: frame A then frame B leave the Analysis State (method, W,
\* threshold and every buffer) that the one frame A (+) B leaves.
C9_TwoFramesAsMerged ==
    TwoFrames =>
        /\ Configuration(analysis_state) = Configuration(Merged)
        /\ analysis_state.data_buffers = Merged.data_buffers

\* C9 amended: when both frames are accepted and carry no legacy key, frame A
\* then frame B leave the configuration (method, W, threshold, method_params)
\* that A (+) B leaves.
C9_AcceptedFramesConfigureAsMerged ==
    (TwoFrames /\ chain.a_ret /\ last_ret /\ NoLegacy(chain.a) /\ NoLegacy(chain.b))
        => Configuration(analysis_state) = Configuration(Merged)

C9_Witness ==
    /\ TwoFrames /\ chain.a_ret /\ last_ret
    /\ NoLegacy(chain.a) /\ NoLegacy(chain.b)
    /\ chain.a.window_size.t = "num"
    /\ chain.b.window_size.t = "num"
    /\ chain.a.window_size # chain.b.window_size
    /\ chain.a.score_threshold = JNum(20)
    /\ chain.b.method # NoMethod
    /\ Configuration(analysis_state) = Configuration(Merged)
    /\ analysis_state.data_buffers # Merged.data_buffers

RepeatsConfiguration(m, s) ==
    /\ IsFrame(m)
    /\ m.method # NoMethod
    /\ Lower(m.method) = s.method
    /\ m.window_size = JNum(s.window_size)
    /\ m.score_threshold = JNum(s.score_threshold)
    /\ NoLegacy(m)

\* C10: a control frame that repeats the current method, W and threshold
\* changes nothing: configuration, method_params and every buffer, contents
\* and capacity, stay, and with them the decisions on the samples that follow.
C10_RepeatedConfigurationIsNoOp ==
    RepeatsConfiguration(last_msg, last_pre) =>
        /\ analysis_state = last_pre
        /\ last_ret
        /\ \A record \in DOMAIN parsed_data, c \in Channels, numeric \in BOOLEAN :
              DecisionFor(analysis_state, parsed_data[record], c, ammad_detectors, numeric)
              = DecisionFor(last_pre, parsed_data[record], c, ammad_detectors, numeric)

C10_Witness ==
    /\ RepeatsConfiguration(last_msg, last_pre)
    /\ \A c \in Channels : Len(last_pre.data_buffers[c].items) >= 2
    /\ analysis_state = last_pre

\* the value a frame carries under the legacy key of a method, if any
LegacyValue(m, method) ==
    CASE method = "fft" -> m.FFT
      [] method = "z_score" -> m.Z_score
      [] method = "lof" -> m.LOF
      [] OTHER -> JAbsent

\* the threshold a frame with legacy keys must leave: the value under the key
\* of the method in force after the frame, else the threshold as it was
LegacyOutcome ==
    LET v == LegacyValue(last_msg, analysis_state.method)
    IN IF v.t = "num" /\ v.v >= 0
       THEN analysis_state.score_threshold = v.v
       ELSE last_msg.score_threshold = JAbsent
                => analysis_state.score_threshold = last_pre.score_threshold

\* C11 as stated: a legacy key FFT, Z_score or LOF with a non-negative value
\* sets the threshold exactly when the method in force after the frame's
\* method key is fft, z_score or lof respectively; otherwise the threshold is
\* untouched.
C11_LegacySetsThresholdIffMethodMatches ==
    (IsFrame(last_msg) /\ LegacyCount(last_msg) > 0) => LegacyOutcome

\* C11 amended: the same, for a frame the handler accepts (its method,
\* window_size and score_threshold keys, if any, are all valid).
C11_AcceptedLegacySetsThresholdIffMethodMatches ==
    (IsFrame(last_msg) /\ LegacyCount(last_msg) > 0 /\ last_ret) => LegacyOutcome

C11_Witness ==
    /\ IsFrame(last_msg) /\ last_ret
    /\ last_msg.method = "lof"
    /\ last_pre.method # "lof"
    /\ last_msg.LOF = JNum(7)
    /\ last_pre.score_threshold # 7
    /\ analysis_state.score_threshold = 7
    /\ analysis_state.method_params.score_threshold = 7

ValidRequest(request) ==
    Lower(request.method) \in METHODS /\ BatchFiles[request.file].parsed

\* the rows a response answers
InputOf(response) == BatchFiles[response.request.file].rows

\* entry i of data mirrors record i: its time, and a [value, decision] pair
\* under exactly the channels the record has a value for
MirrorsInput(data, rows, i) ==
    /\ data[i].time = rows[i].time
    /\ \A c \in Channels :
          /\ data[i].cells[c].present <=> rows[i].values[c] # Missing
          /\ data[i].cells[c].present =>
                /\ data[i].cells[c].value = rows[i].values[c]
                /\ data[i].cells[c].decision \in BOOLEAN

\* C13: a batch run over N records with a valid method answers with exactly
\* N entries in input order; entry i holds the time of record i and, under
\* exactly the channel keys of record i, [value, decision].
C13_ResponseMirrorsInput ==
    /\ \A r \in DOMAIN responses :
          /\ ValidRequest(responses[r].request) <=> responses[r].status = 200
          /\ responses[r].status = 200 =>
                /\ Len(responses[r].data) = Len(InputOf(responses[r]))
                /\ responses[r].total_records = Len(InputOf(responses[r]))
                /\ \A i \in DOMAIN responses[r].data :
                      MirrorsInput(responses[r].data, InputOf(responses[r]), i)
    /\ batch.phase = "rows" =>
          /\ Len(batch.data) = batch.i
          /\ \A i \in DOMAIN batch.data : MirrorsInput(batch.data, batch.file, i)

C13_Witness ==
    \E r \in DOMAIN responses :
        /\ responses[r].status = 200
        /\ Len(responses[r].data) = 4
        /\ \E i \in DOMAIN responses[r].data :
              \A c \in Channels : ~responses[r].data[i].cells[c].present
        /\ \E i \in DOMAIN responses[r].data :
              responses[r].data[i].cells[Pressure].decision

\* the cells of data whose decision is true
TrueCells(data) ==
    {ic \in (DOMAIN data) \X Channels : data[ic[1]].cells[ic[2]].decision}

\* C14: total_anomalies of a batch response is the number of (row, channel)
\* cells of its data whose decision is true.
C14_TotalCountsTrueCells ==
    /\ \A r \in DOMAIN responses :
          responses[r].status = 200 =>
              responses[r].total_anomalies = Cardinality(TrueCells(responses[r].data))
    /\ batch.phase = "rows" =>
          batch.total_anomalies = Cardinality(TrueCells(batch.data))

C14_Witness ==
    \E r \in DOMAIN responses :
        /\ responses[r].status = 200
        /\ responses[r].total_anomalies = 2
        /\ \E i \in DOMAIN responses[r].data :
              \A c \in Channels : responses[r].data[i].cells[c].decision

\* C15: the AMMAD decisions of a run depend only on the samples of that run;
\* in particular the same AMMAD batch request, repeated, gets the same
\* response.
C15_RepeatedAmmadBatchAnswersTheSame ==
    \A r1, r2 \in DOMAIN responses :
        (/\ responses[r1].request = responses[r2].request
         /\ Lower(responses[r1].request.method) = "ammad")
            => responses[r1] = responses[r2]

\* C16: no step shortens the AMMAD history of a channel, and handling a
\* control frame (or a timeout or a disconnect of the poll) and the
\* end-of-sequence clear leave every history as it is.
C16_HistorySurvivesFramesAndClears ==
    [][/\ \A c \in Channels : ammad_detectors'[c] >= ammad_detectors[c]
       /\ pc = "poll" => ammad_detectors' = ammad_detectors
       /\ (pc = "record" /\ record_index >= Len(parsed_data))
             => ammad_detectors' = ammad_detectors]_vars

C16_Witness ==
    /\ MethodChanged
    /\ last_pre.method = "ammad"
    /\ SomeBuffer(last_pre)
    /\ analysis_state.data_buffers = NoBuffers
    /\ ammad_detectors[Pressure] > ammad_at_accept[Pressure]
    /\ ammad_at_accept[Pressure] > 0

OutOfLimits(c, v) == v < SAFETY_LIMITS[c].min \/ v > SAFETY_LIMITS[c].max

\* samples around the limits of both channels
ProbeValues == {-1, 0, 100, 400, 401, 500, 10000, 10001}

WarmupWindow == 3

\* the inputs of the warmup checks: every sequence of up to WarmupWindow
\* samples, two of them equal and one beyond the limits
WarmupInputs ==
    UNION {[1..n -> {100, 102, 500}] : n \in 0..WarmupWindow}

\* what the warmup rule says of the three windowed detectors
WindowedWarmup ==
    \A data \in WarmupInputs, W \in 0..WarmupWindow,
       threshold \in {DEFAULT_SCORE_THRESHOLD, Z_SCORE_THRESHOLD}, numeric \in BOOLEAN :
        /\ Len(data) <= W =>
              /\ z_score(data, W, threshold) = "False"
              /\ lof(data, W, threshold, numeric) = "False"
        /\ Len(data) < W => fft(data, W, threshold, numeric) = "False"

C19_TransportFailureEndsLoop ==
    [][/\ (pc = "record" /\ record_index < Len(parsed_data))
             => \/ pc' = "poll" /\ just_sent' /\ record_index' = record_index + 1
                \/ pc' = "closed"
       /\ pc = "poll" => pc' \in {"record", "closed"}
       /\ pc = "closed"
             => /\ pc' = "closed"
                /\ last_sent' = last_sent
                /\ ammad_detectors' = ammad_detectors]_vars

C19_Witness ==
    /\ pc = "closed"
    /\ last_sent[Pressure].value = 500
    /\ ammad_detectors[Pressure] > ammad_at_accept[Pressure]

\* a control frame was handled in the last step and was rejected
RejectedFrame == last_msg.kind # "none" /\ ~last_ret

\* C20: a control frame that is malformed or rejected does not end the loop:
\* after it is handled the session is open and at the record step.
C20_RejectedFrameKeepsLoopRunning ==
    RejectedFrame => pc = "record"

C20_Witness ==
    /\ just_sent
    /\ pc = "poll"
    /\ chain.len = 1
    /\ chain.a.kind = "malformed"
    /\ ~chain.a_ret

\* the record the frame number k (from 0) of a session must carry
RecordOfFrame(k) == parsed_data[(k % Len(parsed_data)) + 1]

\* the frame just emitted carries the values of its record, and the cursor
\* stands at the number of frames emitted, modulo the length of the sequence
InSequenceOrder ==
    /\ (pc # "closed" /\ parsed_data # << >>) =>
          record_index % Len(parsed_data) = emitted
    /\ just_sent =>
          \A c \in Channels :
              last_sent[c].value
                  = RecordOfFrame(emitted + Len(parsed_data) - 1)[c]

\* C21: in a session over N records the frame number k carries record
\* k mod N; the cursor moves by one and only with a frame that was sent, and
\* goes back to 0 only from N; and whenever the cursor is at 0 no channel has
\* a buffer.
C21_FramesFollowTheSequence ==
    /\ [](InSequenceOrder)
    /\ []((pc # "closed" /\ record_index = 0)
             => analysis_state.data_buffers = NoBuffers)
    /\ [][(record_index' # record_index /\ pc' # "closed") =>
             \/ /\ record_index' = record_index + 1
                /\ just_sent'
                /\ record_index < Len(parsed_data)
             \/ /\ record_index' = 0
                /\ record_index = Len(parsed_data)
                /\ ~just_sent'
                /\ analysis_state'.data_buffers = NoBuffers]_vars

C21_Witness ==
    /\ just_sent
    /\ record_index = 1
    /\ since_change[Pressure] = Len(parsed_data)
    /\ analysis_state.data_buffers[Pressure].items = << parsed_data[1][Pressure] >>

OtherChannel(c) == CHOOSE d \in Channels : d # c

\* what the other channel may hold instead: its value in the record, its
\* buffer and its AMMAD history
OtherWorlds ==
    { [v |-> Missing, buffer |-> NoBuffer, history |-> 0],
      [v |-> 100, buffer |-> Deque(<< 500 >>, 1), history |-> AMMAD_MIN_HISTORY - 1],
      [v |-> 500, buffer |-> Deque(<< 101, 100, 101 >>, DefaultWindow + 1),
       history |-> AMMAD_MIN_HISTORY + 5] }

\* the batch run that has the configuration and the buffers of the session
BatchLike(s) ==
    [IdleBatch EXCEPT !.phase = "rows", !.method = s.method,
                      !.method_params = get_method_params(s),
                      !.deque_length = s.window_size + 1,
                      !.prev = s.data_buffers]

\* the stream loop gives channel c the same decision, buffer and history
\* when the other channel's value, buffer and history are replaced
StreamIgnoresOther(s, table, record, c, v, buffer, history, numeric) ==
    LET d == OtherChannel(c)
        s2 == [s EXCEPT !.data_buffers[d] = buffer]
        record2 == [record EXCEPT ![d] = v]
        table2 == [table EXCEPT ![d] = history]
    IN /\ DecisionFor(s, record, c, table, numeric)
            = DecisionFor(s2, record2, c, table2, numeric)
       /\ BuffersAfter(s, record)[c] = BuffersAfter(s2, record2)[c]
       /\ TableAfter(s, record, table)[c] = TableAfter(s2, record2, table2)[c]

\* the tasks of a row in the order they were created
CreationOrder(row) == [j \in 1..Len(KeyList(row)) |-> j]

\* the same for a row of a batch run
BatchIgnoresOther(s, table, record, c, v, buffer, history, numeric) ==
    LET d == OtherChannel(c)
        b == BatchLike(s)
        b2 == [b EXCEPT !.prev[d] = buffer]
        row == [time |-> 0, values |-> record]
        row2 == [time |-> 0, values |-> [record EXCEPT ![d] = v]]
        table2 == [table EXCEPT ![d] = history]
        bits == [x \in Channels |-> IF x = c THEN numeric ELSE FALSE]
        g == gather(b, row, table, bits, CreationOrder(row))
        g2 == gather(b2, row2, table2, bits, CreationOrder(row2))
    IN /\ ResultsByKey(row, g.results)[c] = ResultsByKey(row2, g2.results)[c]
       /\ g.table[c] = g2.table[c]
       /\ BatchPrevAfter(b, row)[c] = BatchPrevAfter(b2, row2)[c]

\* the outcomes the final comparison of the method in force can have
NumericOutcomes ==
    IF analysis_state.method \in {"lof", "fft"} THEN BOOLEAN ELSE {FALSE}

\* C22: when a record is processed, by the stream loop or as a row of a batch
\* run, for every method, the decision for a channel, and the buffer and the
\* AMMAD history the channel is left with, are the same whatever the other
\* channel's value in the record, its buffer and its history are.
C22_ChannelsAreIndependent ==
    (pc = "record" /\ record_index < Len(parsed_data)) =>
        \A c \in Channels, w \in OtherWorlds, numeric \in NumericOutcomes :
            /\ StreamIgnoresOther(analysis_state, ammad_detectors,
                                  parsed_data[record_index + 1], c,
                                  w.v, w.buffer, w.history, numeric)
            /\ BatchIgnoresOther(analysis_state, ammad_detectors,
                                 parsed_data[record_index + 1], c,
                                 w.v, w.buffer, w.history, numeric)

C22_Witness ==
    /\ just_sent
    /\ analysis_state.method = "ammad"
    /\ last_sent[Pressure].decision
    /\ ~last_sent[Depth].decision
    /\ last_sent[Depth].value # Missing
    /\ ammad_detectors[Pressure] > ammad_detectors[Depth]

\* the samples before sample n of a stream, at most W of them
Preceding(stream, n, W) == SubSeq(stream, Max(1, n - W), n - 1)

\* n > W, the population standard deviation of the W samples before
\* sample n is at least 0.01, and sample n is more than threshold standard
\* deviations away from their mean (all scaled by the number of samples)
ZScoreOutlier(stream, n, W, threshold, unit) ==
    /\ n > W
    /\ W > 0
    /\ LET w == Preceding(stream, n, W)
           mean_W == SumSeq(w)
           var_WW == W * SumSquares(w) - mean_W * mean_W
           dev_W == W * stream[n] - mean_W
       IN /\ var_WW > (W * W * unit * unit - 1) \div 10000
          /\ 100 * dev_W * dev_W > threshold * threshold * var_WW

\* C23: fed one sample at a time through a buffer of capacity W + 1,
\* z_score reports sample n anomalous exactly when n > W, the population
\* standard deviation of the W samples before it is at least 0.01 and the
\* sample lies more than threshold deviations from their mean; the stream
\* 10.0, 10.1, 10.2, 10.1, 10.3, 50.0 with W = 5 and threshold 2.0 gets
\* false five times and then true.
C23_ZScoreFlagsOutliersOnly ==
    probe.kind = "feed" =>
        /\ \A n \in DOMAIN probe.decisions :
              probe.decisions[n]
                  <=> ZScoreOutlier(probe.stream, n, probe.window_size,
                                    probe.score_threshold, probe.unit)
        /\ (probe.stream = QuickStream /\ Len(probe.decisions) = Len(QuickStream))
              => probe.decisions = << FALSE, FALSE, FALSE, FALSE, FALSE, TRUE >>

C23_Witness ==
    /\ probe.kind = "feed"
    /\ probe.stream = QuickStream
    /\ probe.window_size = 5
    /\ probe.decisions = << FALSE, FALSE, FALSE, FALSE, FALSE, TRUE >>

\* a sample a whole unit away from a window that varies by less than 0.01
\* is not reported
C23_DeadSignalWitness ==
    /\ probe.kind = "feed"
    /\ probe.stream = << 0, 10, 0, 1000 >>
    /\ probe.window_size = 3
    /\ probe.decisions = << FALSE, FALSE, FALSE, FALSE >>

\* require_consensus of the channel's configuration
RequiresConsensus == [c \in Channels |-> TRUE]

\* the verdict the threshold rule gives for score S (thousandths), the votes
\* and the largest normalised signal (hundredths), against threshold tau
\* (tenths)
FollowsThreshold(consensus, S, votes, largest, tau) ==
    IF consensus
    THEN (votes >= 2 /\ S >= 100 * tau) \/ S >= 100 * tau + 150
    ELSE S >= 100 * tau \/ (largest > 90 /\ S > 100 * tau - 100)

\* C24: when no short-circuit fires, AMMAD's verdict follows the configured
\* threshold: with consensus required it is true exactly when (votes >= 2 and
\* S >= threshold) or S >= threshold + 0.15, and without exactly when
\* S >= threshold or (some signal > 0.9 and S > threshold - 0.1).
C24_VerdictFollowsConfiguredThreshold ==
    (probe.kind = "decide" /\ probe.verdict # "none") =>
        ((probe.verdict = "True")
            <=> FollowsThreshold(RequiresConsensus[probe.param_name],
                                 final_score(probe.param_name, probe.s_z,
                                             probe.s_lof, probe.s_fft),
                                 orig_votes(probe.s_z, probe.s_lof, probe.s_fft),
                                 Max(probe.s_z, Max(probe.s_lof, probe.s_fft)),
                                 probe.score_threshold))

\* what a frame asks for, key by key
MethodGiven(m) == m.method # NoMethod
MethodValid(m) == Lower(m.method) \in METHODS
WindowGiven(m) == m.window_size.t # "absent"
WindowValid(m) == m.window_size.t = "num" /\ m.window_size.v >= 0
ThresholdGiven(m) == m.score_threshold.t # "absent"
ThresholdValid(m) == m.score_threshold.t = "num" /\ m.score_threshold.v >= 0

\* the keys before the first invalid one are in force after the frame
EarlierKeysStay ==
    IsFrame(last_msg) =>
        /\ (MethodGiven(last_msg) /\ MethodValid(last_msg))
              => analysis_state.method = Lower(last_msg.method)
        /\ /\ MethodGiven(last_msg) => MethodValid(last_msg)
           /\ WindowGiven(last_msg) /\ WindowValid(last_msg)
           => analysis_state.window_size = last_msg.window_size.v

\* the keys after the first invalid one leave their settings as they were
LaterKeysAreSkipped ==
    IsFrame(last_msg) =>
        /\ (MethodGiven(last_msg) /\ ~MethodValid(last_msg))
              => /\ analysis_state.window_size = last_pre.window_size
                 /\ analysis_state.score_threshold = last_pre.score_threshold
        /\ (WindowGiven(last_msg) /\ ~WindowValid(last_msg))
              => analysis_state.score_threshold = last_pre.score_threshold

\* the valid keys after an invalid one are applied
LaterKeysAreApplied ==
    IsFrame(last_msg) =>
        /\ (WindowGiven(last_msg) /\ WindowValid(last_msg))
              => analysis_state.window_size = last_msg.window_size.v
        /\ (ThresholdGiven(last_msg) /\ ThresholdValid(last_msg))
              => analysis_state.score_threshold = last_msg.score_threshold.v

\* C25 as stated: the keys of a frame are applied in the order method,
\* window_size, score_threshold and each succeeds or fails on its own: an
\* invalid key neither rolls back the earlier updates of the frame nor keeps
\* its later valid keys from being applied.
C25_KeysSucceedOrFailIndependently ==
    EarlierKeysStay /\ LaterKeysAreApplied

\* C25: the keys of a frame are applied in the order method, window_size,
\* score_threshold up to the first invalid one: the updates made before it
\* stay in force, it is not applied, and the keys after it are not applied
\* either, the handler returning false.
C25_KeysApplyUpToFirstInvalid ==
    /\ EarlierKeysStay
    /\ LaterKeysAreSkipped
    /\ (/\ IsFrame(last_msg)
        /\ \/ MethodGiven(last_msg) /\ ~MethodValid(last_msg)
           \/ WindowGiven(last_msg) /\ ~WindowValid(last_msg)
           \/ ThresholdGiven(last_msg) /\ ~ThresholdValid(last_msg))
       => ~last_ret

\* a frame changes the method, fails on window_size and carries a valid new
\* score_threshold: the method is changed, the threshold is not
C25_Witness ==
    /\ IsFrame(last_msg)
    /\ MethodGiven(last_msg) /\ MethodValid(last_msg)
    /\ Lower(last_msg.method) # last_pre.method
    /\ WindowGiven(last_msg) /\ ~WindowValid(last_msg)
    /\ ThresholdGiven(last_msg) /\ ThresholdValid(last_msg)
    /\ last_msg.score_threshold.v # last_pre.score_threshold
    /\ analysis_state.method = Lower(last_msg.method)
    /\ analysis_state.score_threshold = last_pre.score_threshold
    /\ ~last_ret

\* the row the batch loop is about to process
RowAhead == batch.phase = "rows" /\ batch.i < Len(batch.file)

\* C26: the decisions of a batch row do not depend on the order in which the
\* row's detector calls run: for every order each channel gets the same
\* decision, attached to the channel whose value produced it, and every call
\* reads a buffer that already ends with the channel's value of the row.
C26_RowDecisionsIgnoreTaskOrder ==
    /\ RowAhead =>
          LET record == batch.file[batch.i + 1]
              n == Len(KeyList(record))
          IN /\ \A c \in RecordKeys(record.values) :
                   LET snapshot == BatchPrevAfter(batch, record)[c].items
                   IN /\ snapshot # << >>
                      /\ snapshot[Len(snapshot)] = record.values[c]
             /\ \A numeric \in [Channels -> BOOLEAN], order \in Orders(n) :
                   LET gathered == gather(batch, record, ammad_detectors,
                                          numeric, order)
                   IN /\ ResultsByKey(record, gathered.results)
                            = BatchResults(batch, record, ammad_detectors, numeric)
                      /\ gathered.table
                            = gather(batch, record, ammad_detectors, numeric,
                                     [j \in 1..n |-> j]).table
    /\ batch.phase = "rows" =>
          \A i \in 1..Len(batch.data), c \in Channels :
             /\ batch.data[i].cells[c].present
                   <=> c \in RecordKeys(batch.file[i].values)
             /\ batch.data[i].cells[c].present
                   => batch.data[i].cells[c].value = batch.file[i].values[c]

\* a row with both channels has been answered, one channel anomalous and the
\* other not
C26_Witness ==
    /\ batch.phase = "rows"
    /\ \E i \in 1..Len(batch.data) :
          /\ batch.data[i].cells[Pressure].present
          /\ batch.data[i].cells[Depth].present
          /\ batch.data[i].cells[Pressure].decision
          /\ ~batch.data[i].cells[Depth].decision

\* a step within the rate limits of the channel
WithinRate(param_name, step) ==
    /\ step <= max_change_rate[param_name]
    /\ param_name = Pressure => step <= pressure_spike

\* C27: AMMAD's rate-of-change check compares each sample with the sample
\* right before it: once the minimum history is met a sample is flagged when
\* |current - previous| exceeds the channel's max_change_rate, and a sample
\* whose step from the sample right before it is within the channel's limits
\* is not flagged, also right after a flagged sample.
C27_RateAgainstPrecedingSample ==
    probe.kind = "rate" =>
        \A i \in 2..Len(probe.flagged) :
            LET step == Abs(probe.stream[i] - probe.stream[i - 1])
            IN /\ step > max_change_rate[probe.param_name] => probe.flagged[i] # "no"
               /\ WithinRate(probe.param_name, step) => probe.flagged[i] # "rate"

\* the part of C27 the detector the application runs breaks: a step above
\* max_change_rate is flagged
C27_AppFlagsFastChange ==
    (probe.kind = "rate" /\ probe.variant = "app") =>
        \A i \in 2..Len(probe.flagged) :
            Abs(probe.stream[i] - probe.stream[i - 1])
                > max_change_rate[probe.param_name] => probe.flagged[i] # "no"

\* the part of C27 the earlier detector breaks: a step within the limits is
\* not flagged
C27_EarlierPassesSlowChange ==
    (probe.kind = "rate" /\ probe.variant = "earlier") =>
        \A i \in 2..Len(probe.flagged) :
            WithinRate(probe.param_name,
                       Abs(probe.stream[i] - probe.stream[i - 1]))
                => probe.flagged[i] # "rate"

\* C28 as stated: at most one control message is applied between any two
\* consecutive emitted frames.
C28_OneMessageBetweenFrames ==
    just_sent => gap.messages <= 1

\* C28: every iteration of the stream loop polls once and applies at most one
\* control message; between two consecutive emitted frames lies one
\* iteration, or two when the sequence wraps around, the end-of-sequence
\* iteration polling as well: so at most two messages are applied between
\* two frames, and two only before the first record of a new pass.
C28_OneMessagePerIteration ==
    /\ gap.iterations < GapCap => gap.messages <= gap.iterations
    /\ just_sent =>
          /\ gap.iterations \in {1, 2}
          /\ gap.messages <= gap.iterations
          /\ gap.iterations = 2 => (record_index = 1 /\ emitted = 1 % Len(parsed_data))
          /\ record_index # 1 => gap.messages <= 1

\* two control messages were applied between the last frame of a pass and
\* the first frame of the next
C28_Witness ==
    /\ just_sent
    /\ record_index = 1
    /\ gap.iterations = 2
    /\ gap.messages = 2
    /\ since_change[Pressure] > 0

\* the subscriber stays connected and every send succeeds
StaysConnected == [](pc # "closed")

\* C29 as stated: while the subscriber stays connected and every send
\* succeeds, the stream loop emits a frame infinitely often, for any prepared
\* record sequence.
C29_EmitsInfinitelyOften ==
    StaysConnected => []<>just_sent

\* C29: while the subscriber stays connected and every send succeeds, the
\* stream loop emits a frame infinitely often when the prepared record
\* sequence is not empty; with an empty sequence it polls and resets for
\* ever and never emits a frame.
C29_EmitsUnlessNoRecords ==
    /\ (StaysConnected /\ parsed_data # << >>) => []<>just_sent
    /\ (parsed_data = << >>) => [](~just_sent)

\* the loop is emitting again after it has been through the whole sequence
C29_Witness ==
    /\ parsed_data # << >>
    /\ just_sent
    /\ record_index = 1
    /\ gap.iterations = 2

\* the buffer of channel c has the length the current detector asks for
WarmupOver(c) ==
    IF analysis_state.method = "fft"
    THEN Len(analysis_state.data_buffers[c].items) >= analysis_state.window_size
    ELSE Len(analysis_state.data_buffers[c].items) > analysis_state.window_size

\* C30: warmup always ends: for every configuration reached through accepted
\* control frames, a channel that keeps receiving samples of a pass has, again
\* and again, a buffer long enough for the current detector (more than W
\* samples for z_score and lof, at least W for fft).
C30_WarmupAlwaysEnds ==
    (StaysConnected /\ parsed_data = LiveData)
        => \A c \in Channels : []<>WarmupOver(c)

===========================================================================
